---- MODULE Spec2Model ----
(***************************************************************************)
(* A model of molter's HelpCommand (src/molter/help.py).                   *)
(*                                                                         *)
(* Strings are sequences of one-character strings, so that str.lower,      *)
(* str.replace, str.join and len are computed character by character.      *)
(* A format template is a sequence whose elements are characters or a      *)
(* replacement field ("{cmd_name}", "{username}") kept as one element.     *)
(***************************************************************************)
EXTENDS Integers, Sequences, FiniteSets, TLC

VARIABLES
    helps,      \* HelpCommand instances: instance id -> its attributes
    callback,   \* HelpCommand._callback.callback: the instances it is bound to
    helpAttr,   \* enabled / hidden of the HelpCommand._callback command object
    commands,   \* client.commands: the registry, in insertion order
    user,       \* client.user: [id, username]
    last,       \* what the last operation did (result, replies, error)
    text,       \* the text handed to _sanitise_mentions
    passes      \* how many times _sanitise_mentions was applied to text

vars == <<helps, callback, helpAttr, commands, user, last, text, passes>>

\* an optional value: None, or Some(v)
None == [some |-> FALSE, val |-> << >>]
Some(v) == [some |-> TRUE, val |-> v]

\* ------------------------------------------------------------------ bounds
MaxCmds == 2        \* user commands in the registry
MaxFragments == 3   \* fragments a sanitised text is built from

\* ----------------------------------------------------------------- strings
S_help == <<"h","e","l","p">>
S_None == <<"N","o","n","e">>
S_Bot == <<"B","o","t">>
S_everyone == <<"e","v","e","r","y","o","n","e">>
S_here == <<"h","e","r","e">>
NL == "\n"
ZWSP == "u200b"     \* the zero width space, one character
Tick == "bt"        \* the backtick, one character

RECURSIVE Concat(_)
Concat(ss) == IF ss = << >> THEN << >> ELSE Head(ss) \o Concat(Tail(ss))

Repeat(c, n) == [i \in 1..n |-> c]

\* the letters of the model's alphabet that have two cases
CasePairs ==
    <<<<"A", "a">>, <<"B", "b">>, <<"E", "e">>, <<"F", "f">>, <<"G", "g">>, <<"H", "h">>,
      <<"I", "i">>, <<"L", "l">>, <<"N", "n">>, <<"O", "o">>, <<"P", "p">>, <<"S", "s">>,
      <<"T", "t">>, <<"X", "x">>, <<"Y", "y">>, <<"Z", "z">>>>

\* str.lower, one character
LowerChar(c) ==
    IF \E i \in 1..Len(CasePairs) : CasePairs[i][1] = c
    THEN CasePairs[CHOOSE i \in 1..Len(CasePairs) : CasePairs[i][1] = c][2]
    ELSE c

UpperChar(c) ==
    IF \E i \in 1..Len(CasePairs) : CasePairs[i][2] = c
    THEN CasePairs[CHOOSE i \in 1..Len(CasePairs) : CasePairs[i][2] = c][1]
    ELSE c

Upper(s) == [i \in 1..Len(s) |-> UpperChar(s[i])]

Lower(s) == [i \in 1..Len(s) |-> LowerChar(s[i])]

\* str.find(source): the first place source occurs in t, 0 for none
Find(t, source) ==
    LET M == {i \in 1..(Len(t) - Len(source) + 1) :
                SubSeq(t, i, i + Len(source) - 1) = source}
    IN  IF M = {} THEN 0 ELSE CHOOSE i \in M : \A j \in M : i <= j

\* str.replace(source, target): left to right, non-overlapping, source # ""
RECURSIVE Replace(_, _, _)
Replace(t, source, target) ==
    LET k == Find(t, source) IN
    IF k = 0 THEN t
    ELSE SubSeq(t, 1, k - 1) \o target
         \o Replace(SubSeq(t, k + Len(source), Len(t)), source, target)

\* "\n".join(lines)
RECURSIVE Join(_)
Join(lines) ==
    IF lines = << >> THEN << >>
    ELSE IF Len(lines) = 1 THEN lines[1]
    ELSE lines[1] \o <<NL>> \o Join(Tail(lines))

\* template.format(field=value): the replacement field becomes value, which is
\* not scanned again
RECURSIVE Format(_, _, _)
Format(tpl, field, value) ==
    IF tpl = << >> THEN << >>
    ELSE (IF Head(tpl) = field THEN value ELSE <<Head(tpl)>>)
         \o Format(Tail(tpl), field, value)

\* --------------------------------------------------- _sanitise_mentions
\* the mappings dict, in insertion order
Mappings(u) ==
    << <<<<"@">> \o S_everyone, <<"@", ZWSP>> \o S_everyone>>,
       <<<<"@">> \o S_here, <<"@", ZWSP>> \o S_here>>,
       <<<<"<", "@">> \o u.id \o <<">">>, <<"@">> \o u.username>>,
       <<<<"<", "@", "!">> \o u.id \o <<">">>, <<"@">> \o u.username>> >>

RECURSIVE ApplyMappings(_, _)
ApplyMappings(t, ms) ==
    IF ms = << >> THEN t
    ELSE ApplyMappings(Replace(t, Head(ms)[1], Head(ms)[2]), Tail(ms))

SanitiseMentions(t, u) == ApplyMappings(t, Mappings(u))

\* ------------------------------------------------------------- __init__
\* an attribute of the instance: absent until something assigns it
Unset == [some |-> FALSE, val |-> FALSE]
Assigned(b) == [some |-> TRUE, val |-> b]

UsernameField == "{username}"
CmdNameField == "{cmd_name}"

DefaultEmbedTitle ==
    <<UsernameField, " ", "H", "e", "l", "p", " ", "C", "o", "m", "m", "a", "n", "d">>

DefaultNotFoundMessage ==
    <<"S", "o", "r", "r", "y", "!", " ", "N", "o", " ", "c", "o", "m", "m", "a", "n", "d",
      " ", "c", "a", "l", "l", "e", "d", " ", Tick, CmdNameField,
      Tick, " ", "w", "a", "s", " ", "f", "o", "u", "n", "d", ".">>

\* x or default: None and the empty string are falsy
OrDefault(x, default) == IF ~x.some \/ x.val = << >> THEN default ELSE x.val

\* HelpCommand(client, show_hidden=..., ...): show_disabled is not a parameter
\* and no line assigns it
HelpCommandInit(show_hidden, run_checks, show_self, show_params, show_aliases, show_prefix, embed_title, not_found_message) ==
    [show_hidden |-> show_hidden,
     show_disabled |-> Unset,
     run_checks |-> run_checks,
     show_self |-> show_self,
     show_params |-> show_params,
     show_aliases |-> show_aliases,
     show_prefix |-> show_prefix,
     embed_title |-> OrDefault(embed_title, DefaultEmbedTitle),
     not_found_message |-> OrDefault(not_found_message, DefaultNotFoundMessage)]

\* ------------------------------------------------------ command objects
HelpId == 0     \* identity of the command object the decorator builds once,
                \* in the class body: every instance's self.cmd is this object

NoScale == [some |-> FALSE, scale_checks |-> << >>]
Scale(checks) == [some |-> TRUE, scale_checks |-> checks]

\* a text attribute: head followed by pad times "x"
Str(b) == b.head \o Repeat("x", b.pad)
Short(s) == [head |-> s, pad |-> 0]

\* the command object of _callback: named "help", one optional parameter
HelpCmd(attr) ==
    [id |-> HelpId,
     qualified_name |-> S_help,
     enabled |-> attr.enabled,
     hidden |-> attr.hidden,
     aliases |-> << >>,
     params |-> <<[name |-> <<"c", "m", "d", "_", "n", "a", "m", "e">>, optional |-> TRUE]>>,
     brief |-> Short(S_None),
     help |-> Short(S_None),
     checks |-> << >>,
     scale |-> NoScale]

Names(reg) == {reg[i].qualified_name : i \in 1..Len(reg)}

\* ------------------------------------------------------------- _gather
\* if not cmd.enabled and not self.show_disabled: continue: reading the
\* attribute raises AttributeError when nothing has assigned it
EnabledFilter(h, cmd) ==
    IF cmd.enabled THEN "pass"
    ELSE IF ~h.show_disabled.some THEN "raise"
    ELSE IF ~h.show_disabled.val THEN "skip"
    ELSE "pass"

SelfHiddenFilterElif(h, cmd) ==
    IF cmd.id = HelpId
    THEN (IF ~h.show_self THEN "skip" ELSE "pass")
    ELSE (IF cmd.hidden /\ ~h.show_hidden THEN "skip" ELSE "pass")

SelfHiddenFilterNoSelf(h, cmd) ==
    IF cmd.hidden /\ ~h.show_hidden THEN "skip" ELSE "pass"

\* if cmd == self.cmd and not self.show_self: continue
\* elif cmd.hidden and not self.show_hidden: continue
SelfHiddenFilter(h, cmd) ==
    IF cmd.id = HelpId /\ ~h.show_self THEN "skip"
    ELSE IF cmd.hidden /\ ~h.show_hidden THEN "skip"
    ELSE "pass"

Call(cmd, kind, i, result) ==
    [cmd |-> cmd.qualified_name, kind |-> kind, index |-> i, result |-> result]

RECURSIVE CheckLoopBreak(_, _, _, _)
CheckLoopBreak(cmd, kind, checks, i) ==
    IF i > Len(checks) THEN [calls |-> << >>, skip |-> FALSE]
    ELSE IF ~checks[i] THEN [calls |-> <<Call(cmd, kind, i, checks[i])>>, skip |-> TRUE]
    ELSE LET rest == CheckLoopBreak(cmd, kind, checks, i + 1)
         IN  [calls |-> <<Call(cmd, kind, i, checks[i])>> \o rest.calls, skip |-> rest.skip]

\* for _c in checks: if not await _c(ctx): continue: the continue belongs to
\* this loop, so every check is awaited and the command is never skipped
RECURSIVE CheckLoop(_, _, _, _)
CheckLoop(cmd, kind, checks, i) ==
    IF i > Len(checks) THEN [calls |-> << >>, skip |-> FALSE]
    ELSE LET rest == CheckLoop(cmd, kind, checks, i + 1)
         IN  [calls |-> <<Call(cmd, kind, i, checks[i])>> \o rest.calls, skip |-> rest.skip]

\* lines 146-155 for one command
RunChecks(h, ctx, cmd) ==
    IF ctx.some /\ cmd.checks # << >> /\ ~h.run_checks
    THEN LET own == CheckLoop(cmd, "cmd", cmd.checks, 1)
             sc == IF cmd.scale.some /\ cmd.scale.scale_checks # << >>
                   THEN CheckLoop(cmd, "scale", cmd.scale.scale_checks, 1)
                   ELSE [calls |-> << >>, skip |-> FALSE]
         IN  [calls |-> own.calls \o sc.calls, skip |-> own.skip \/ sc.skip]
    ELSE [calls |-> << >>, skip |-> FALSE]

\* out[cmd.qualified_name] = cmd on a dict that keeps insertion order
DictSet(out, cmd) ==
    IF \E i \in 1..Len(out) : out[i].qualified_name = cmd.qualified_name
    THEN [i \in 1..Len(out) |->
            IF out[i].qualified_name = cmd.qualified_name THEN cmd ELSE out[i]]
    ELSE Append(out, cmd)

\* the loop over self._client.commands.values(), from entry i on.
\* status: "ok" (returned out) or "AttributeError" (raised, nothing returned);
\* passed: the commands that got past the flag filters, in order;
\* calls: the checks awaited, in order.
RECURSIVE GatherFrom(_, _, _, _, _)
GatherFrom(h, ctx, reg, i, acc) ==
    IF i > Len(reg) THEN acc
    ELSE LET cmd == reg[i] IN
         IF EnabledFilter(h, cmd) = "raise"
         THEN [acc EXCEPT !.status = "AttributeError", !.out = << >>]
         ELSE IF EnabledFilter(h, cmd) = "skip" \/ SelfHiddenFilter(h, cmd) = "skip"
         THEN GatherFrom(h, ctx, reg, i + 1, acc)
         ELSE LET r == RunChecks(h, ctx, cmd) IN
              GatherFrom(h, ctx, reg, i + 1,
                  [status |-> "ok",
                   out |-> IF r.skip THEN acc.out ELSE DictSet(acc.out, cmd),
                   passed |-> Append(acc.passed, cmd.qualified_name),
                   calls |-> acc.calls \o r.calls])

Gather(h, ctx, reg) ==
    GatherFrom(h, ctx, reg, 1,
               [status |-> "ok", out |-> << >>, passed |-> << >>, calls |-> << >>])

\* dict.get(key): the place of the value stored under key, 0 for None
DictGet(out, key) ==
    IF \E i \in 1..Len(out) : out[i].qualified_name = key
    THEN CHOOSE i \in 1..Len(out) : out[i].qualified_name = key
    ELSE 0

\* ---------------------------------------------- _generate_command_string
RECURSIVE AliasesString(_)
AliasesString(as) ==
    IF as = << >> THEN << >>
    ELSE <<"|", Tick>> \o Head(as) \o <<Tick>> \o AliasesString(Tail(as))

RECURSIVE ParamsString(_)
ParamsString(ps) ==
    IF ps = << >> THEN << >>
    ELSE LET p == Head(ps)
             wrapper == IF p.optional THEN <<"[", "]">> ELSE <<"<", ">">>
         IN  <<" ", Tick, wrapper[1]>> \o p.name \o <<wrapper[2], Tick>>
             \o ParamsString(Tail(ps))

GenerateCommandString(h, cmd, ctx) ==
    <<Tick>> \o (IF h.show_prefix THEN ctx.prefix ELSE << >>) \o cmd.qualified_name
    \o <<Tick>>
    \o (IF cmd.aliases # << >> /\ h.show_aliases THEN AliasesString(cmd.aliases) ELSE << >>)
    \o (IF cmd.params # << >> /\ h.show_params THEN ParamsString(cmd.params) ELSE << >>)

\* ------------------------------------------------------------ replies
ListLimit == 500    \* `if len("\n".join(output)) > 500`
PageSize == 500     \* `page_size=500`

Outcome(status, g, replies, shown) ==
    [status |-> status, out |-> g.out, passed |-> g.passed, calls |-> g.calls,
     replies |-> replies, shown |-> shown]

\* ---------------------------------------------------------- _help_list
HelpList(h, ctx, reg, u) ==
    LET g == Gather(h, ctx, reg) IN
    IF g.status # "ok" THEN Outcome(g.status, g, << >>, << >>)
    ELSE LET output == [i \in 1..Len(g.out) |->
                          SanitiseMentions(GenerateCommandString(h, g.out[i], ctx)
                                           \o <<NL>> \o Str(g.out[i].brief), u)]
             title == Format(h.embed_title, UsernameField, u.username)
             shown == [i \in 1..Len(g.out) |-> g.out[i].id]
         IN  IF Len(Join(output)) > ListLimit
             THEN Outcome("ok", g,
                          <<[kind |-> "paginator", title |-> title, pages |-> output,
                             page_size |-> PageSize]>>, shown)
             ELSE Outcome("ok", g,
                          <<[kind |-> "embed", title |-> title,
                             description |-> Join(output), color |-> "BLURPLE"]>>, shown)

\* ------------------------------------------------------ _help_specific
NotFoundReplyLowered(h, cmd_name) ==
    [kind |-> "reply",
     content |-> Format(h.not_found_message, CmdNameField, Lower(cmd_name))]

\* `await ctx.reply(self.not_found_message.format(cmd_name=cmd_name))`
NotFoundReply(h, cmd_name) ==
    [kind |-> "reply", content |-> Format(h.not_found_message, CmdNameField, cmd_name)]

DetailReply(h, ctx, cmd, u) ==
    [kind |-> "reply",
     content |-> SanitiseMentions(GenerateCommandString(h, cmd, ctx)
                                  \o <<NL>> \o Str(cmd.help), u)]

HelpSpecific(h, ctx, cmd_name, reg, u) ==
    LET g == Gather(h, ctx, reg) IN
    IF g.status # "ok" THEN Outcome(g.status, g, << >>, << >>)
    ELSE LET k == DictGet(g.out, Lower(cmd_name.val)) IN
         IF k # 0
         THEN Outcome("ok", g, <<DetailReply(h, ctx, g.out[k], u)>>, << >>)
         ELSE Outcome("ok", g, <<NotFoundReply(h, cmd_name.val)>>, << >>)

\* ----------------------------------------------------------- _callback
\* `if cmd_name:` is false for None and for the empty string
Callback(h, ctx, cmd_name, reg, u) ==
    IF cmd_name.some /\ cmd_name.val # << >>
    THEN HelpSpecific(h, ctx, cmd_name, reg, u)
    ELSE HelpList(h, ctx, reg, u)

\* ------------------------------------------------------------- inputs
Ctx == [some |-> TRUE, prefix |-> <<"!">>]     \* a MessageContext
NoCtx == [some |-> FALSE, prefix |-> << >>]    \* ctx=None
BotUser == [id |-> <<"1">>, username |-> S_Bot]
S_xyzzy == <<"x", "y", "z", "z", "y">>

\* a command of the host framework
Command(name, enabled, hidden, aliases, params, brief, help, checks, scale) ==
    [id |-> 1,
     qualified_name |-> name,
     enabled |-> enabled,
     hidden |-> hidden,
     aliases |-> aliases,
     params |-> params,
     brief |-> brief,
     help |-> help,
     checks |-> checks,
     scale |-> scale]

S_hi == <<"h", "i">>

Cmd(name, enabled, hidden, checks, scale) ==
    Command(name, enabled, hidden, << >>, << >>, Short(S_hi), Short(S_hi), checks, scale)

\* the commands the registry of the filter runs is filled from; a check is
\* written as the value it returns for the context
FilterPool ==
    { Cmd(<<"a">>, TRUE, FALSE, << >>, NoScale),
      Cmd(<<"b">>, TRUE, TRUE, <<FALSE>>, NoScale),
      Cmd(<<"c">>, FALSE, FALSE, << >>, NoScale),
      Cmd(<<"f">>, TRUE, FALSE, << >>, Scale(<<FALSE>>)),
      Cmd(<<"g">>, TRUE, FALSE, <<TRUE, FALSE>>, Scale(<<FALSE, TRUE>>)) }

TextCmd(name, enabled, aliases, params, brief, help) ==
    Command(name, enabled, FALSE, aliases, params, brief, help, << >>, NoScale)

S_ping == <<"p", "i", "n", "g">>
S_Ping == <<"P", "i", "n", "g">>
S_big == <<"b", "i", "g">>
S_at == <<"a", "t">>
S_off == <<"o", "f", "f">>
AtHere == <<"@">> \o S_here
BotMention == <<"<", "@", "1", ">">>

BigPad == 494   \* "big" alone, unprefixed: 5 + 1 + 494 = 500 characters
AtPad == 490    \* "at" alone, unprefixed: 4 + 1 + 5 + 490 = 500 before sanitising

\* the commands the registry of the text runs is filled from
TextPool ==
    { TextCmd(S_ping, TRUE, <<<<"p">>>>, <<[name |-> <<"n">>, optional |-> FALSE]>>,
              Short(S_hi), Short(BotMention)),
      TextCmd(S_Ping, TRUE, << >>, << >>, Short(AtHere), Short(S_hi)),
      TextCmd(S_big, TRUE, << >>, << >>, [head |-> << >>, pad |-> BigPad], Short(S_hi)),
      TextCmd(S_at, TRUE, << >>, << >>, [head |-> AtHere, pad |-> AtPad], Short(S_hi)),
      TextCmd(S_off, FALSE, << >>, << >>, Short(S_hi), Short(S_hi)) }

\* the commands the registry of the registration runs is filled from: one of
\* them is somebody else's command named "help"
RegPool ==
    { Cmd(<<"a">>, TRUE, FALSE, << >>, NoScale),
      Cmd(S_help, TRUE, FALSE, << >>, NoScale) }

\* registries: up to n commands of pool under distinct names, in any order
Registries(pool, n) ==
    UNION { { r \in [1..k -> pool] :
                \A i, j \in 1..k : i # j => r[i].qualified_name # r[j].qualified_name }
            : k \in 0..n }

\* what a user may type after the command: nothing, a registered name in
\* any letter case, a name nobody registered
CmdNameInputs(reg) ==
    {None} \cup {Some(n) : n \in
        {<< >>, S_xyzzy} \cup Names(reg) \cup {Upper(n) : n \in Names(reg)}}

NoOp ==
    [op |-> "none", inst |-> 0, ctx |-> NoCtx, cmd_name |-> None, status |-> "ok",
     out |-> << >>, passed |-> << >>, calls |-> << >>, replies |-> << >>, shown |-> << >>]

Done(op, i, ctx, cmd_name, o) ==
    [op |-> op, inst |-> i, ctx |-> ctx, cmd_name |-> cmd_name, status |-> o.status,
     out |-> o.out, passed |-> o.passed, calls |-> o.calls, replies |-> o.replies,
     shown |-> o.shown]

\* ------------------------------------------------------------- actions
\* an assignment to the declared attribute show_disabled
SetShowDisabled(i, b) ==
    /\ helps[i].show_disabled # Assigned(b)
    /\ helps' = [helps EXCEPT ![i].show_disabled = Assigned(b)]
    /\ last' = [NoOp EXCEPT !.op = "assign", !.inst = i]
    /\ UNCHANGED <<callback, helpAttr, commands, user, text, passes>>

RemoveHelp(reg) == SelectSeq(reg, LAMBDA c : c.qualified_name # S_help)

\* register(): bind the callback unless it is a partial already, delete an
\* entry named "help", add self.cmd
Register(i) ==
    /\ callback' = IF callback = << >> THEN <<i>> ELSE callback
    /\ commands' = Append(RemoveHelp(commands), HelpCmd(helpAttr))
    /\ last' = [NoOp EXCEPT !.op = "register", !.inst = i]
    /\ UNCHANGED <<helps, helpAttr, user, text, passes>>

\* a direct call of _gather, with or without a context
GatherCall(i, ctx) ==
    /\ last' = Done("gather", i, ctx, None,
                    Outcome(Gather(helps[i], ctx, commands).status,
                            Gather(helps[i], ctx, commands), << >>, << >>))
    /\ UNCHANGED <<helps, callback, helpAttr, commands, user, text, passes>>

\* the client runs the registry's "help" entry: its callback is
\* partial(_callback, instance), so the bound instance handles the message
Dispatch(cmd_name) ==
    /\ \E k \in 1..Len(commands) : commands[k].id = HelpId
    /\ Len(callback) = 1
    /\ last' = Done("help", callback[1], Ctx, cmd_name,
                    Callback(helps[callback[1]], Ctx, cmd_name, commands, user))
    /\ UNCHANGED <<helps, callback, helpAttr, commands, user, text, passes>>

Next ==
    \/ \E i \in DOMAIN helps, b \in BOOLEAN : SetShowDisabled(i, b)
    \/ \E i \in DOMAIN helps : Register(i)
    \/ \E i \in DOMAIN helps, ctx \in {NoCtx, Ctx} : GatherCall(i, ctx)
    \/ \E n \in CmdNameInputs(commands) : Dispatch(n)

\* one HelpCommand with default formatting over a registry of FilterPool
Init ==
    /\ helps \in { [i \in {1} |->
                      HelpCommandInit(sh, rc, ss, FALSE, FALSE, FALSE, None, None)]
                   : sh \in BOOLEAN, rc \in BOOLEAN, ss \in BOOLEAN }
    /\ callback = << >>
    /\ helpAttr \in [enabled : {TRUE}, hidden : BOOLEAN]
    /\ commands \in Registries(FilterPool, MaxCmds)
    /\ user = BotUser
    /\ last = NoOp
    /\ text = << >>
    /\ passes = 0

Spec == Init /\ [][Next]_vars

\* a not_found_message argument: "no {cmd_name}"
CustomNotFound == <<"n", "o", " ", CmdNameField>>

\* show_params, show_aliases, show_prefix
FormatFlags == {<<FALSE, FALSE, FALSE>>, <<TRUE, TRUE, TRUE>>}

\* one HelpCommand with plain or full formatting over a registry of TextPool
InitText ==
    /\ helps \in { [i \in {1} |->
                      HelpCommandInit(FALSE, FALSE, ss, f[1], f[2], f[3], None, nf)]
                   : ss \in BOOLEAN, f \in FormatFlags,
                     nf \in {None, Some(CustomNotFound)} }
    /\ callback = << >>
    /\ helpAttr = [enabled |-> TRUE, hidden |-> FALSE]
    /\ commands \in Registries(TextPool, MaxCmds)
    /\ user = BotUser
    /\ last = NoOp
    /\ text = << >>
    /\ passes = 0

SpecText == InitText /\ [][Next]_vars

NumInstances == 2   \* HelpCommand instances sharing one client

\* several HelpCommand instances on one client
InitReg ==
    /\ helps \in [1..NumInstances ->
                    { HelpCommandInit(sh, FALSE, ss, FALSE, FALSE, FALSE, None, None)
                      : sh \in BOOLEAN, ss \in BOOLEAN }]
    /\ callback = << >>
    /\ helpAttr = [enabled |-> TRUE, hidden |-> FALSE]
    /\ commands \in Registries(RegPool, MaxCmds)
    /\ user = BotUser
    /\ last = NoOp
    /\ text = << >>
    /\ passes = 0

SpecReg == InitReg /\ [][Next]_vars

\* ------------------------------------------------ sanitising, on its own
MaxPasses == 3      \* applications of _sanitise_mentions to one text

Fragments ==
    { <<"@">>, S_everyone, S_here, <<"<", "@">>, <<"<", "@", "!">>, <<"1">>, <<">">>,
      <<"@">> \o S_everyone, BotMention, <<ZWSP>>, <<"x">> }

Texts(n) == UNION { {Concat(fs) : fs \in [1..k -> Fragments]} : k \in 0..n }

S_hereby == <<"h", "e", "r", "e", "b", "y">>

SanUsers ==
    { [id |-> <<"1">>, username |-> n] : n \in {S_Bot, S_everyone, S_here, S_hereby} }

SanitiseCall ==
    /\ passes < MaxPasses
    /\ text' = SanitiseMentions(text, user)
    /\ passes' = passes + 1
    /\ last' = [NoOp EXCEPT !.op = "sanitise", !.cmd_name = Some(text)]  \* the argument
    /\ UNCHANGED <<helps, callback, helpAttr, commands, user>>

NextSan == SanitiseCall

InitSan ==
    /\ helps = [i \in {1} |->
                  HelpCommandInit(FALSE, FALSE, FALSE, FALSE, FALSE, FALSE, None, None)]
    /\ callback = << >>
    /\ helpAttr = [enabled |-> TRUE, hidden |-> FALSE]
    /\ commands = << >>
    /\ user \in SanUsers
    /\ last = NoOp
    /\ text \in Texts(MaxFragments)
    /\ passes = 0

SpecSan == InitSan /\ [][NextSan]_vars

\* ============================================================== claims
Ran(ops) == last.op \in ops
Handler == helps[last.inst]
OutNames == {last.out[k].qualified_name : k \in 1..Len(last.out)}
Typed == last.cmd_name.val
SpecificView == last.op = "help" /\ last.cmd_name.some /\ Typed # << >>
ListView == last.op = "help" /\ ~(last.cmd_name.some /\ Typed # << >>)

\* C1: with show_hidden false, whatever the registry and the other flags, no
\* command whose hidden flag is set is in the mapping gather returns, the help
\* command itself included.
C1_NoHiddenInGather ==
    (Ran({"gather", "help"}) /\ ~Handler.show_hidden)
        => \A k \in 1..Len(last.out) : ~last.out[k].hidden

\* C1 witness: gather returned some command, with show_self true, over a
\* registry holding a hidden help command and a hidden user command.
C1_Witness ==
    /\ Ran({"gather"}) /\ last.status = "ok" /\ last.out # << >>
    /\ ~Handler.show_hidden /\ Handler.show_self
    /\ \E k \in 1..Len(commands) : commands[k].id = HelpId /\ commands[k].hidden
    /\ \E k \in 1..Len(commands) : commands[k].id # HelpId /\ commands[k].hidden

\* C2: on a HelpCommand as the constructor leaves it or with show_disabled
\* assigned, gather over a registry holding a disabled command completes without
\* error; the disabled command is left out when show_disabled is false and is in
\* the result, if the self and hidden filters let it through, when it is true.
C2_DisabledFiltered ==
    (Ran({"gather", "help"}) /\ \E k \in 1..Len(commands) : ~commands[k].enabled)
        => /\ last.status = "ok"
           /\ \A k \in 1..Len(commands) :
                ~commands[k].enabled =>
                    (commands[k].qualified_name \in OutNames
                        <=> /\ Handler.show_disabled.val
                            /\ SelfHiddenFilter(Handler, commands[k]) = "pass")

AllTrue(checks) == \A i \in 1..Len(checks) : checks[i]

\* C3: with run_checks true and a context, every command in gather's result
\* has all its own checks and all its scale's checks returning true.
C3_OnlyPassingShown ==
    (Ran({"gather", "help"}) /\ last.ctx.some /\ Handler.run_checks)
        => \A k \in 1..Len(last.out) :
              AllTrue(last.out[k].checks) /\ AllTrue(last.out[k].scale.scale_checks)

SameUpToCase(a, b) == Lower(a) = Lower(b)

\* C4: for a command c of the registry, the only one of its name up to letter
\* case, and a request equal to that name up to letter case, the single-command
\* view replies with the detail text of c if and only if c is in gather's
\* result, and with the not-found message otherwise.
C4_CaseInsensitiveLookup ==
    (SpecificView /\ last.status = "ok")
        => \A k \in 1..Len(commands) :
              ( /\ SameUpToCase(commands[k].qualified_name, Typed)
                /\ \A j \in 1..Len(commands) :
                     j # k => ~SameUpToCase(commands[j].qualified_name, Typed) )
              => IF commands[k].qualified_name \in OutNames
                 THEN last.replies = <<DetailReply(Handler, last.ctx, commands[k], user)>>
                 ELSE last.replies = <<NotFoundReply(Handler, Typed)>>

\* C5: sanitising a text that was sanitised already changes nothing, whatever
\* the text, the bot's id and the bot's username.
C5_SanitiseIdempotent ==
    (last.op = "sanitise" /\ passes >= 2) => text = last.cmd_name.val

\* C6: after a register() call the registry holds exactly one entry named
\* "help", the command object of the HelpCommand, and its callback is bound,
\* once, to the instance whose register() ran last.
C6_LastRegistrationWins ==
    Ran({"register"})
        => /\ Cardinality({k \in 1..Len(commands) : commands[k].qualified_name = S_help}) = 1
           /\ \A k \in 1..Len(commands) :
                commands[k].qualified_name = S_help => commands[k].id = HelpId
           /\ callback = <<last.inst>>

\* C7: with show_self false, whatever the registry and the other flags, the help
\* command is not among the commands the list view formats.
C7_SelfNotListed ==
    (ListView /\ ~Handler.show_self)
        => \A k \in 1..Len(last.shown) : last.shown[k] # HelpId

\* C7 witness: a list view with show_self false that formatted some command,
\* the help command being registered and otherwise visible.
C7_Witness ==
    /\ ListView /\ ~Handler.show_self /\ last.status = "ok" /\ last.shown # << >>
    /\ \E k \in 1..Len(commands) : commands[k].id = HelpId /\ ~commands[k].hidden

\* the template with its replacement field replaced by name
Spliced(tpl, name) ==
    LET k == CHOOSE i \in 1..Len(tpl) : tpl[i] = CmdNameField
    IN  SubSeq(tpl, 1, k - 1) \o name \o SubSeq(tpl, k + 1, Len(tpl))

IsNotFound == last.replies = <<[kind |-> "reply",
                                content |-> Spliced(Handler.not_found_message, Typed)]>>

\* C8 as stated: a non-empty requested name that is not a key of the mapping
\* gather returned gets exactly one plain reply, the not-found message with the
\* name as typed.
C8_Original ==
    (SpecificView /\ last.status = "ok" /\ Typed \notin OutNames) => IsNotFound

\* C8 amended: a non-empty requested name that, lower-cased, is not a key of
\* the mapping gather returned gets exactly one plain reply, the not-found
\* message with the name as typed.
C8_NotFoundVerbatim ==
    (SpecificView /\ last.status = "ok" /\ Lower(Typed) \notin OutNames) => IsNotFound

\* C8 witness: a name typed with an upper-case letter got the not-found reply
\* over a registry some of whose commands gather returned.
C8_Witness ==
    /\ SpecificView /\ last.status = "ok" /\ Lower(Typed) \notin OutNames
    /\ Typed # Lower(Typed) /\ last.out # << >> /\ Len(last.replies) = 1

\* C9: every list view sends exactly one of the two: the paginator, page size
\* 500, when the joined sanitised lines are longer than 500 characters, and
\* otherwise one embed whose description is the joined text.
C9_OneListReply ==
    ListView
        => /\ Len(last.replies) = 1
           /\ \/ /\ last.replies[1].kind = "paginator"
                 /\ last.replies[1].page_size = 500
                 /\ Len(Join(last.replies[1].pages)) > 500
              \/ /\ last.replies[1].kind = "embed"
                 /\ Len(last.replies[1].description) <= 500

ChecksOf(cmd, kind, checks) == [i \in 1..Len(checks) |-> Call(cmd, kind, i, checks[i])]

CmdNamed(n) == commands[CHOOSE k \in 1..Len(commands) : commands[k].qualified_name = n]

\* the spec's three flag conditions
FlagSurviving(h, cmd) ==
    /\ cmd.enabled \/ (h.show_disabled.some /\ h.show_disabled.val)
    /\ cmd.id # HelpId \/ h.show_self
    /\ ~cmd.hidden \/ h.show_hidden

PassAll(reg) ==
    [k \in 1..Len(reg) |->
        [reg[k] EXCEPT !.checks = [i \in 1..Len(reg[k].checks) |-> TRUE],
                       !.scale.scale_checks =
                           [i \in 1..Len(reg[k].scale.scale_checks) |-> TRUE]]]

\* the commands returned are those returned when every check returns true
IndependentOfChecks ==
    LET g == Gather(Handler, last.ctx, PassAll(commands))
    IN  /\ g.status = last.status
        /\ [k \in 1..Len(g.out) |-> g.out[k].qualified_name]
             = [k \in 1..Len(last.out) |-> last.out[k].qualified_name]

ChecksIgnored == Ran({"gather", "help"}) /\ last.ctx.some /\ ~Handler.run_checks

\* C10 as stated: every check of every flag-surviving command, then every check
\* of its scale, is awaited in order, and the result does not depend on them.
C10_Original ==
    (ChecksIgnored /\ last.status = "ok")
        => LET surviving == SelectSeq(commands, LAMBDA c : FlagSurviving(Handler, c))
           IN  /\ last.calls =
                    Concat([k \in 1..Len(surviving) |->
                        ChecksOf(surviving[k], "cmd", surviving[k].checks)
                        \o ChecksOf(surviving[k], "scale", surviving[k].scale.scale_checks)])
               /\ IndependentOfChecks

\* C10 amended: with a context and run_checks false, for every command that
\* gets past gather's flag filters and has a check of its own, every one of its
\* checks and then every check of its scale is awaited, in order, a false result
\* stopping nothing; for a command with no check of its own nothing is awaited,
\* its scale's checks included; the commands returned do not depend on what the
\* checks return, and a command with a failing check is returned.
C10_ChecksAwaitedNotApplied ==
    ChecksIgnored
        => /\ last.calls =
                Concat([k \in 1..Len(last.passed) |->
                    IF CmdNamed(last.passed[k]).checks = << >> THEN << >>
                    ELSE ChecksOf(CmdNamed(last.passed[k]), "cmd",
                                  CmdNamed(last.passed[k]).checks)
                         \o ChecksOf(CmdNamed(last.passed[k]), "scale",
                                     CmdNamed(last.passed[k]).scale.scale_checks)])
           /\ IndependentOfChecks
           /\ last.status = "ok" =>
                /\ last.passed = [k \in 1..Len(last.out) |-> last.out[k].qualified_name]
                /\ \A k \in 1..Len(commands) :
                     FlagSurviving(Handler, commands[k])
                        <=> commands[k].qualified_name \in OutNames

\* C10 witness: gather returned a command one of whose checks returned false,
\* after awaiting a check of its scale too, over a registry that also holds a
\* command with scale checks only.
C10_Witness ==
    /\ ChecksIgnored /\ last.status = "ok"
    /\ \E i \in 1..Len(last.calls) :
         /\ ~last.calls[i].result /\ last.calls[i].kind = "cmd"
         /\ last.calls[i].cmd \in OutNames
         /\ \E j \in (i + 1)..Len(last.calls) :
              last.calls[j].kind = "scale" /\ last.calls[j].cmd = last.calls[i].cmd
    /\ \E k \in 1..Len(last.out) :
         last.out[k].checks = << >> /\ last.out[k].scale.scale_checks # << >>

====
